---------------------------- MODULE Spec2Model ----------------------------
(***************************************************************************)
(* A model of mlflow_observer.py: the MlflowObserver adapter, which maps   *)
(* Sacred's observer callbacks to calls of the MLflow tracking API, and    *)
(* the flatten_dict utility it uses for nested configurations.             *)
(*                                                                         *)
(* Python values are modelled as follows.                                  *)
(*   - A string is a sequence of characters (each a one-element TLA+       *)
(*     string; a fixed literal such as "run_" may be kept as one element). *)
(*   - None is a value distinct from every string.                         *)
(*   - A mapping (dict) is a sequence of entries [k, val] with distinct    *)
(*     keys, in insertion order.                                           *)
(*   - A value inside a nested mapping is a record: a scalar               *)
(*     [leaf |-> TRUE, v, items |-> <<>>] or a mapping                     *)
(*     [leaf |-> FALSE, v |-> 0, items].                                   *)
(***************************************************************************)
EXTENDS Integers, Sequences, FiniteSets, TLC

VARIABLES
    \* ---- the adapter (class MlflowObserver) ----
    tracking_uri,   \* self.tracking_uri
    time_fmt,       \* self.time_fmt
    _run_id,        \* self._run_id
    \* ---- the tracking store, as far as the adapter's calls reach it ----
    store_runs,     \* number of runs the store has created so far
    active_run,     \* identifier of the store's run that is open, or None
    \* ---- the dispatcher that drives the adapter ----
    phase,          \* position in the inbound callback order
    ended,          \* an end-run call has been issued in this session
    started_ok,     \* a started_event has returned normally in this session
    event,          \* the callback handled last, with its inputs
    calls,          \* outbound calls issued by that callback, in order
    result,         \* how that callback ended: returned a value or raised
    \* ---- a direct call of flatten_dict ----
    fd_pc,          \* "call" before the call, "done" after it, "off" otherwise
    fd_d,           \* the argument d
    fd_yielded,     \* what the generator _flatten_dict yielded, in order
    fd_out          \* the returned dict

adapterVars == <<tracking_uri, time_fmt, _run_id>>
storeVars   == <<store_runs, active_run>>
driverVars  == <<phase, ended, started_ok, event, calls, result>>
flatVars    == <<fd_pc, fd_d, fd_yielded, fd_out>>
vars        == <<adapterVars, storeVars, driverVars, flatVars>>

-----------------------------------------------------------------------------
(* Python values *)

None == <<"<None>">>

\* Python's truth value of an optional string: None and '' are false.
Falsy(s) == s = None \/ s = <<>>

Leaf(x)   == [leaf |-> TRUE, v |-> x, items |-> <<>>]
MapVal(d) == [leaf |-> FALSE, v |-> 0, items |-> d]

\* isinstance(v, collections.abc.Mapping) and v
IsNonEmptyMapping(val) == ~val.leaf /\ val.items # <<>>

Entry(key, val) == [k |-> key, val |-> val]

Range(s) == {s[i] : i \in 1..Len(s)}

KeysOf(d) == {d[i].k : i \in 1..Len(d)}

\* d[key] for a key of d
Lookup(d, key) == (CHOOSE i \in 1..Len(d) : d[i].k = key)
ValueAt(d, key) == d[Lookup(d, key)].val

\* dict(pairs) and dict comprehensions: a later pair with a key already
\* present replaces the value and keeps the key's first position.
RECURSIVE DictFrom(_, _)
DictFrom(pairs, acc) ==
    IF pairs = <<>> THEN acc
    ELSE LET p == Head(pairs)
             next == IF p.k \in KeysOf(acc)
                     THEN [acc EXCEPT ![Lookup(acc, p.k)].val = p.val]
                     ELSE Append(acc, p)
         IN DictFrom(Tail(pairs), next)

DictOf(pairs) == DictFrom(pairs, <<>>)

-----------------------------------------------------------------------------
(* flatten_dict *)

DefaultSep == <<".">>

RECURSIVE _flatten_dict(_, _, _)
RECURSIVE FlattenItems(_, _, _, _)

\* The loop "for k, v in d.items()" from item i on, under the prefix the
\* head of _flatten_dict computed.
FlattenItems(d, prefix, sep, i) ==
    IF i > Len(d) THEN <<>>
    ELSE LET k == d[i].k
             v == d[i].val
             new_key == prefix \o k
             here == IF IsNonEmptyMapping(v)
                     THEN _flatten_dict(v.items, new_key, sep)
                     ELSE <<Entry(prefix \o k, v)>>
         IN here \o FlattenItems(d, prefix, sep, i + 1)

\* The generator: the sequence of (key, value) pairs it yields.
_flatten_dict(d, parent_key, sep) ==
    LET prefix == IF Falsy(parent_key) THEN <<>> ELSE parent_key \o sep
    IN FlattenItems(d, prefix, sep, 1)

flatten_dict(d, sep) == DictOf(_flatten_dict(d, None, sep))


-----------------------------------------------------------------------------
(* Inputs of a direct call of flatten_dict *)

\* Total number of entries, counted over all nesting levels, of an input.
MaxEntries == 3

\* Keys: the empty string, plain keys, and a key containing the separator.
ConfigKeys == {<<>>, <<"a">>, <<"b">>, <<"a", ".", "b">>}

Scalars == {1, 2}

EmptyMapping == MapVal(<<>>)

RECURSIVE MappingsOfSize(_)
RECURSIVE ValuesOfSize(_)

\* Values holding exactly n entries below them.
ValuesOfSize(n) ==
    IF n = 0 THEN {Leaf(x) : x \in Scalars} \cup {EmptyMapping}
    ELSE {MapVal(d) : d \in MappingsOfSize(n)}

\* Mappings with exactly n entries in all, keys distinct at each level.
MappingsOfSize(n) ==
    IF n = 0 THEN {<<>>}
    ELSE UNION { UNION { { <<Entry(key, val)>> \o rest :
                             key \in ConfigKeys \ KeysOf(rest),
                             val \in ValuesOfSize(s) } :
                         rest \in MappingsOfSize(n - 1 - s) } :
                 s \in 0..(n - 1) }

\* Mappings with at most n entries in all.
MappingsUpTo(n) == UNION {MappingsOfSize(i) : i \in 0..n}

-----------------------------------------------------------------------------
(* Construction, and a direct call of flatten_dict *)

DefaultTimeFmt == <<"%b", "%d", "_", "%H", "-", "%M", "-", "%S">>

TrackingUris == {None, <<"/", "m">>}
TimeFmts == {DefaultTimeFmt, <<"%H", "h">>}

NoEvent == [name |-> "__init__"]
NoResult == [status |-> "returned", value |-> None, error |-> None, at |-> 0]

\* MlflowObserver.__init__
Constructed ==
    /\ tracking_uri \in TrackingUris
    /\ time_fmt \in TimeFmts
    /\ _run_id = None
    /\ store_runs = 0
    /\ active_run = None
    /\ phase = "new"
    /\ ended = FALSE
    /\ started_ok = FALSE
    /\ event = NoEvent
    /\ calls = <<>>
    /\ result = NoResult

FlatOff ==
    /\ fd_pc = "off"
    /\ fd_d = <<>>
    /\ fd_yielded = <<>>
    /\ fd_out = <<>>

Init == Constructed /\ FlatOff

FlatInit ==
    /\ Constructed
    /\ fd_pc = "call"
    /\ fd_d \in MappingsUpTo(MaxEntries)
    /\ fd_yielded = <<>>
    /\ fd_out = <<>>

\* flatten_dict(d) with the default separator
FlattenCall ==
    /\ fd_pc = "call"
    /\ fd_yielded' = _flatten_dict(fd_d, None, DefaultSep)
    /\ fd_out' = flatten_dict(fd_d, DefaultSep)
    /\ fd_pc' = "done"
    /\ UNCHANGED <<fd_d, adapterVars, storeVars, driverVars>>

FlatNext == FlattenCall

FlatSpec == FlatInit /\ [][FlatNext]_vars

-----------------------------------------------------------------------------
(* What the flattening is measured against *)

\* The leaves of a nested mapping: each key path from the root to a value
\* that is a scalar or the empty mapping, with that value.
RECURSIVE Paths(_)
Paths(d) ==
    UNION { IF IsNonEmptyMapping(d[i].val)
            THEN { [path |-> <<d[i].k>> \o p.path, val |-> p.val] :
                     p \in Paths(d[i].val.items) }
            ELSE { [path |-> <<d[i].k>>, val |-> d[i].val] } :
            i \in 1..Len(d) }

\* k1 + sep + k2 + ... + sep + kn
RECURSIVE Join(_, _)
Join(path, sep) ==
    IF Len(path) = 1 THEN path[1]
    ELSE path[1] \o sep \o Join(Tail(path), sep)

StartsWith(s, pre) ==
    Len(s) >= Len(pre) /\ SubSeq(s, 1, Len(pre)) = pre

\* key.split(sep), continuing a component cur already read
RECURSIVE SplitFrom(_, _, _)
SplitFrom(s, sep, cur) ==
    IF s = <<>> THEN <<cur>>
    ELSE IF StartsWith(s, sep)
         THEN <<cur>> \o SplitFrom(SubSeq(s, Len(sep) + 1, Len(s)), sep, <<>>)
         ELSE SplitFrom(Tail(s), sep, Append(cur, Head(s)))

Split(s, sep) == SplitFrom(s, sep, <<>>)

EndsWith(s, suf) ==
    Len(s) >= Len(suf) /\ SubSeq(s, Len(s) - Len(suf) + 1, Len(s)) = suf

\* C1: once flatten_dict has returned, splitting every output key on the
\* separator gives back exactly the leaf paths of the input with their
\* values, so that re-nesting the output reconstructs the input and no two
\* leaf paths share an output key.
C1_RoundTrip ==
    fd_pc = "done" =>
        /\ { [path |-> Split(e.k, DefaultSep), val |-> e.val] :
               e \in Range(fd_out) } = Paths(fd_d)
        /\ Len(fd_out) = Cardinality(Paths(fd_d))

\* C2: once flatten_dict has returned, no output value is a non-empty
\* mapping, every key of the input whose value is the empty mapping ends an
\* output key that maps to the empty mapping, and the empty input gives the
\* empty output.
C2_EmptyMappingKept ==
    fd_pc = "done" =>
        /\ \A e \in Range(fd_out) : ~IsNonEmptyMapping(e.val)
        /\ \A p \in Paths(fd_d) :
             p.val = EmptyMapping =>
                \E e \in Range(fd_out) :
                    /\ e.val = EmptyMapping
                    /\ EndsWith(e.k, p.path[Len(p.path)])
        /\ (fd_d = <<>> => fd_out = <<>>)

\* C3: the pairs the flattening produces are exactly, for each leaf path
\* k1..kn of the input, the key k1 + sep + ... + sep + kn with the leaf's
\* value.
C3_KeyIsJoinedPath ==
    fd_pc = "done" =>
        Range(fd_yielded) =
            { Entry(Join(p.path, DefaultSep), p.val) : p \in Paths(fd_d) }

-----------------------------------------------------------------------------
(* Python pieces the handlers use *)

\* d.get(key)
Get(d, key) == IF key \in KeysOf(d) THEN ValueAt(d, key) ELSE None

Digit(n) == <<"0", "1", "2", "3", "4", "5", "6", "7", "8", "9">>[n + 1]
TwoDigits(n) == <<Digit(n \div 10), Digit(n % 10)>>

\* One element of a strftime pattern: a directive is replaced by the field
\* of the time it names, any other text stands for itself.
Directive(now, tok) ==
    CASE tok = "%b" -> <<now.b>>
      [] tok = "%d" -> TwoDigits(now.d)
      [] tok = "%H" -> TwoDigits(now.H)
      [] tok = "%M" -> TwoDigits(now.M)
      [] tok = "%S" -> TwoDigits(now.S)
      [] OTHER -> <<tok>>

\* now.strftime(fmt)
RECURSIVE strftime(_, _)
strftime(now, fmt) ==
    IF fmt = <<>> THEN <<>>
    ELSE Directive(now, Head(fmt)) \o strftime(now, Tail(fmt))

\* (variant) the comment is tested for truth, not against None
RunNameIfTruthy(meta_info, now, fmt) ==
    LET name == Get(meta_info, <<"comment">>)
    IN IF Falsy(name) THEN <<"run_">> \o strftime(now, fmt) ELSE name

\* The run's display name: the comment passed through Sacred, else
\* "run_" and the current time.
RunName(meta_info, now, fmt) ==
    LET name == Get(meta_info, <<"comment">>)
    IN IF name = None THEN <<"run_">> \o strftime(now, fmt) ELSE name

\* Integer division rounding toward zero, as int() of a float does.
TruncDiv(a, b) == IF a >= 0 THEN a \div b ELSE -((-a) \div b)

\* round(t.timestamp() * 1000): to the nearest integer, a tie to the even one
RoundMillis(t) ==
    LET q == t \div 1000
        r == t % 1000
    IN IF r < 500 THEN q
       ELSE IF r > 500 THEN q + 1
       ELSE IF q % 2 = 0 THEN q ELSE q + 1

\* int(t.timestamp() * 1000) for a datetime t, given as whole microseconds
\* since the epoch: t.timestamp() is t / 10^6 seconds, the product is
\* t / 1000 milliseconds, and int() drops its fraction.
MillisOf(t) == TruncDiv(t, 1000)

\* mlflow.entities.Metric(key, value, timestamp, step)
Metric(key, value, timestamp, step) ==
    [key |-> key, value |-> value, timestamp |-> timestamp, step |-> step]

Min2(a, b) == IF a <= b THEN a ELSE b

\* len(list(zip(a, b, c)))
ZipLen(a, b, c) == Min2(Len(a), Min2(Len(b), Len(c)))

\* The list comprehension over zip(values, timestamps, steps)
Batch(name, metric_dict) ==
    LET steps == metric_dict.steps
        values == metric_dict.values
        timestamps == metric_dict.timestamps
    IN [i \in 1..ZipLen(values, timestamps, steps) |->
            Metric(name, values[i], MillisOf(timestamps[i]), steps[i])]

\* s.rfind('/') + 1: the position after the last separator, 1-based
RECURSIVE AfterLastSlash(_, _)
AfterLastSlash(s, i) ==
    IF i = 0 THEN 1
    ELSE IF s[i] = "/" THEN i + 1 ELSE AfterLastSlash(s, i - 1)

\* os.path.basename(p): what follows the last separator
basename(p) == SubSeq(p, AfterLastSlash(p, Len(p)), Len(p))

\* RunStatus.to_string(...)
FINISHED == "FINISHED"
KILLED == "KILLED"
FAILED == "FAILED"

-----------------------------------------------------------------------------
(* The tracking store and the failure of a call *)

\* Runs the store creates in one session.
MaxRuns == 2

\* The identifier the store assigns to its n-th run.
RunIdOf(n) == <<"r", Digit(n)>>

\* What a call of the tracking API raises when it fails.
StoreError(op) == <<"MlflowException", op>>

\* (variant) a failed call is swallowed and the handler carries on
IssuedAll(plan, fail) == plan

\* The calls a handler issues when its fail-th call raises (0: none does):
\* nothing in the handlers catches, so the handler ends at that call.
Issued(plan, fail) == IF fail = 0 THEN plan ELSE SubSeq(plan, 1, fail)

\* How the handler ends for its caller.
Outcome(plan, fail, value) ==
    IF fail = 0
    THEN [status |-> "returned", value |-> value, error |-> None, at |-> 0]
    ELSE [status |-> "raised", value |-> None,
          error |-> StoreError(plan[fail].op), at |-> fail]

\* The calls that returned normally.
Completed(plan, fail) ==
    IF fail = 0 THEN plan ELSE SubSeq(plan, 1, fail - 1)

HasOp(cs, op) == \E i \in 1..Len(cs) : cs[i].op = op

\* The dispatcher's position after it has invoked callback ev.
NextPhase(p, ev) ==
    CASE ev = "queued_event" ->
            IF p = "new" THEN "queued" ELSE "invalid"
      [] ev = "started_event" ->
            IF p \in {"new", "queued"} THEN "active" ELSE "invalid"
      [] ev \in {"heartbeat_event", "log_metrics", "artifact_event",
                 "resource_event"} ->
            IF p = "active" THEN "active" ELSE "invalid"
      [] OTHER ->
            IF p = "active" THEN "closed" ELSE "invalid"

\* One callback, handled from entry to return or raise: the calls it makes,
\* their effect on the store, and the value of self._run_id it leaves.
Handle(ev, plan, fail, value, rid) ==
    LET done == Completed(plan, fail)
    IN /\ event' = ev
       /\ calls' = Issued(plan, fail)
       /\ result' = Outcome(plan, fail, value)
       /\ _run_id' = rid
       /\ store_runs' = IF HasOp(done, "start_run")
                        THEN store_runs + 1 ELSE store_runs
       /\ active_run' = IF HasOp(done, "start_run")
                        THEN RunIdOf(store_runs + 1)
                        ELSE IF HasOp(done, "end_run") THEN None
                        ELSE active_run
       /\ ended' = (ended \/ HasOp(Issued(plan, fail), "end_run"))
       /\ started_ok' = (started_ok \/ (ev.name = "started_event" /\ fail = 0))
       /\ phase' = NextPhase(phase, ev.name)
       /\ UNCHANGED <<tracking_uri, time_fmt, flatVars>>

-----------------------------------------------------------------------------
(* Inputs of the callbacks *)

\* ex_info: the experiment's name and its sources, (name, digest) pairs
ExInfos ==
    { [name |-> <<"e", "x">>,
       sources |-> << << <<"m", ".", "p", "y">>, <<"h", "1">> >>,
                      << <<"u", ".", "p", "y">>, <<"h", "2">> >> >>] }

HostInfos ==
    { <<Entry(<<"o", "s">>, <<"L">>), Entry(<<"c", "p", "u">>, <<"x">>)>> }

Configs ==
    { <<>>,
      <<Entry(<<"l", "r">>, Leaf(1)),
        Entry(<<"n", "e", "t">>,
              MapVal(<<Entry(<<"d">>, Leaf(2)), Entry(<<"o">>, EmptyMapping)>>))>> }

\* meta_info without a comment, with the empty comment, with a comment
MetaInfos ==
    { <<>>,
      <<Entry(<<"comment">>, <<>>)>>,
      <<Entry(<<"comment">>, <<"t", "r", "i", "a", "l", "1">>)>> }

SacredIds == {<<"7">>}

\* datetime.datetime.now()
Nows ==
    { [b |-> "Nov", d |-> 4, H |-> 9, M |-> 30, S |-> 5],
      [b |-> "Jan", d |-> 31, H |-> 23, M |-> 0, S |-> 59] }

\* The clock is read only when meta_info has no comment.
NowsRead(meta_info) ==
    IF <<"comment">> \in KeysOf(meta_info)
    THEN {[b |-> "Nov", d |-> 4, H |-> 9, M |-> 30, S |-> 5]}
    ELSE Nows

\* Sample times in whole microseconds since the epoch: before and after it,
\* on a millisecond and between two.
Datetimes ==
    { sec * 1000000 + us :
        sec \in {-1, 1000}, us \in {0, 400, 500, 1500, 999600} }

EmptySeries == [values |-> <<>>, timestamps |-> <<>>, steps |-> <<>>]

\* values 0.5 and 0.3 (in tenths) at 1000.0 s and 1001.0 s, steps 0 and 1
TwoSamples ==
    [values |-> <<5, 3>>, timestamps |-> <<1000000000, 1001000000>>,
     steps |-> <<0, 1>>]

\* sequences of different lengths, which the code accepts
FewerTimestamps ==
    [values |-> <<5, 3>>, timestamps |-> <<1000000000>>, steps |-> <<0, 1>>]
FewerValues ==
    [values |-> <<5>>, timestamps |-> <<400, 1500>>, steps |-> <<0, 1>>]

ShortSeries == {EmptySeries, TwoSamples, FewerTimestamps}

Series ==
    ShortSeries \cup {FewerValues} \cup
    { [values |-> <<5>>, timestamps |-> <<t>>, steps |-> <<0>>] :
        t \in Datetimes }

Loss == <<"l", "o", "s", "s">>
Acc == <<"a", "c", "c">>

\* metrics_by_name: no, one or two metric names
MetricPayloads ==
    {<<>>}
    \cup { <<Entry(n, ser)>> : n \in {Loss, Acc}, ser \in Series }
    \cup { <<Entry(Loss, s1), Entry(Acc, s2)>> :
             s1 \in ShortSeries \cup {FewerValues}, s2 \in ShortSeries }

\* Length of a local path.
MaxPathLen == 2

PathChars == {"/", "d"}

Filenames == UNION { [1..n -> PathChars] : n \in 0..MaxPathLen }

-----------------------------------------------------------------------------
(* The callbacks of MlflowObserver *)

queued_event ==
    Handle([name |-> "queued_event"], <<>>, 0, None, _run_id)

\* The calls started_event makes, in order.
StartedPlan(ex_info, host_info, config, meta_info, id, now) ==
    << [op |-> "set_tracking_uri", uri |-> tracking_uri],
       [op |-> "set_experiment", experiment_name |-> ex_info.name],
       [op |-> "start_run", run_name |-> RunName(meta_info, now, time_fmt)],
       [op |-> "log_params", params |-> flatten_dict(config, DefaultSep)],
       [op |-> "set_tag", key |-> <<"sacred_id">>, value |-> id],
       [op |-> "set_tags",
        tags |-> DictOf([i \in 1..Len(host_info) |->
                    Entry(<<"host_info.">> \o host_info[i].k,
                          host_info[i].val)])],
       [op |-> "set_tags",
        tags |-> DictOf([i \in 1..Len(ex_info.sources) |->
                    Entry(<<"sources.">> \o ex_info.sources[i][1],
                          ex_info.sources[i][2])])] >>

\* (variant) the identifier is recorded only while none is held
RunIdIfUnset(old, new_id, fail) ==
    IF fail = 0 /\ old = None THEN new_id ELSE old

\* self._run_id after started_event: the assignment follows every call.
RunIdAfterStart(old, new_id, fail) == IF fail = 0 THEN new_id ELSE old

started_event ==
    /\ store_runs < MaxRuns
    /\ \E ex_info \in ExInfos, host_info \in HostInfos, config \in Configs,
          meta_info \in MetaInfos, id \in SacredIds, fail \in 0..7 :
       \E now \in NowsRead(meta_info) :
          LET rid == RunIdAfterStart(_run_id, RunIdOf(store_runs + 1), fail)
          IN Handle([name |-> "started_event", ex_info |-> ex_info,
                     host_info |-> host_info, config |-> config,
                     meta_info |-> meta_info, id |-> id, now |-> now],
                    StartedPlan(ex_info, host_info, config, meta_info, id, now),
                    fail, rid, rid)

heartbeat_event ==
    Handle([name |-> "heartbeat_event"], <<>>, 0, None, _run_id)

\* (variant) end_run() without the status, which then defaults to FINISHED
EndRunDefault(status) == <<[op |-> "end_run", status |-> "FINISHED"]>>

\* end_run(status=...)
EndRun(status) == <<[op |-> "end_run", status |-> status]>>

completed_event ==
    \E fail \in 0..1 :
        Handle([name |-> "completed_event"], EndRun(FINISHED), fail,
               None, _run_id)

interrupted_event ==
    \E fail \in 0..1 :
        Handle([name |-> "interrupted_event"], EndRun(KILLED), fail,
               None, _run_id)

failed_event ==
    \E fail \in 0..1 :
        Handle([name |-> "failed_event"], EndRun(FAILED), fail,
               None, _run_id)

resource_event ==
    Handle([name |-> "resource_event"], <<>>, 0, None, _run_id)

\* (variant) log_batch after the loop: only the last batch is submitted
MetricsPlanAfterLoop(metrics_by_name) ==
    IF metrics_by_name = <<>> THEN <<>>
    ELSE LET j == Len(metrics_by_name)
         IN <<[op |-> "log_batch", run_id |-> _run_id,
               metrics |-> Batch(metrics_by_name[j].k,
                                 metrics_by_name[j].val)]>>

\* The calls log_metrics makes: one log_batch per item of metrics_by_name.
MetricsPlan(metrics_by_name) ==
    [j \in 1..Len(metrics_by_name) |->
        [op |-> "log_batch", run_id |-> _run_id,
         metrics |-> Batch(metrics_by_name[j].k, metrics_by_name[j].val)]]

log_metrics ==
    \E metrics_by_name \in MetricPayloads :
        \E fail \in 0..Len(metrics_by_name) :
            Handle([name |-> "log_metrics",
                    metrics_by_name |-> metrics_by_name],
                   MetricsPlan(metrics_by_name), fail, None, _run_id)

\* The call artifact_event makes; isdir is os.path.isdir(filename).
ArtifactPlan(filename, isdir) ==
    IF isdir
    THEN LET dir_name == basename(filename)
         IN <<[op |-> "log_artifacts", run_id |-> _run_id,
               local_dir |-> filename, artifact_path |-> dir_name]>>
    ELSE <<[op |-> "log_artifact", run_id |-> _run_id,
            local_path |-> filename]>>

artifact_event ==
    \E filename \in Filenames, isdir \in BOOLEAN, fail \in 0..1 :
        /\ isdir => filename # <<>>
        /\ Handle([name |-> "artifact_event", filename |-> filename,
                   isdir |-> isdir],
                  ArtifactPlan(filename, isdir), fail, None, _run_id)

\* Any callback at any time: the adapter enforces no order.
Next ==
    \/ queued_event
    \/ started_event
    \/ heartbeat_event
    \/ completed_event
    \/ interrupted_event
    \/ failed_event
    \/ resource_event
    \/ log_metrics
    \/ artifact_event

Spec == Init /\ [][Next]_vars

\* The callbacks in the order the experiment framework invokes them.
InOrder(ev) == NextPhase(phase, ev) # "invalid"

SessionNext ==
    \/ InOrder("queued_event") /\ queued_event
    \/ InOrder("started_event") /\ started_event
    \/ InOrder("heartbeat_event") /\ heartbeat_event
    \/ InOrder("completed_event") /\ completed_event
    \/ InOrder("interrupted_event") /\ interrupted_event
    \/ InOrder("failed_event") /\ failed_event
    \/ InOrder("resource_event") /\ resource_event
    \/ InOrder("log_metrics") /\ log_metrics
    \/ InOrder("artifact_event") /\ artifact_event

SessionSpec == Init /\ [][SessionNext]_vars

-----------------------------------------------------------------------------
(* Properties of the callbacks *)

\* The batches submitted by the log_metrics call handled last, with the
\* series each was built from.
Submitted ==
    { [batch |-> calls[j].metrics, series |-> event.metrics_by_name[j].val] :
        j \in 1..Len(calls) }

\* C4 as written: every timestamp submitted by log_metrics is the sample's
\* time in milliseconds rounded to the nearest integer.
C4_MillisRounded ==
    event.name = "log_metrics" =>
        \A s \in Submitted : \A i \in 1..Len(s.batch) :
            s.batch[i].timestamp = RoundMillis(s.series.timestamps[i])

\* C4 as amended: every timestamp submitted by log_metrics is the sample's
\* time in milliseconds with the fraction dropped, toward zero: the
\* integer of least magnitude within one millisecond of the sample's time.
C4_MillisTruncated ==
    event.name = "log_metrics" =>
        \A s \in Submitted : \A i \in 1..Len(s.batch) :
            LET t == s.series.timestamps[i]
                ms == s.batch[i].timestamp
            IN /\ t >= 0 => (ms * 1000 <= t /\ t < (ms + 1) * 1000)
               /\ t < 0 => (ms * 1000 >= t /\ t > (ms - 1) * 1000)

\* A sample 600 microseconds before a millisecond was submitted with the
\* millisecond below it.
C4_Witness ==
    /\ event.name = "log_metrics"
    /\ \E s \in Submitted : \E i \in 1..Len(s.batch) :
          /\ s.series.timestamps[i] = 1000999600
          /\ s.batch[i].timestamp = 1000999

\* C5: a log_metrics call that returns has submitted exactly one batch per
\* metric name, in order, under the run identifier the adapter holds; entry
\* i of a batch is (name, values[i], converted timestamps[i], steps[i]), the
\* batch ends where the first of the three sequences ends, and so has an
\* entry for every position when the three are of equal length.
C5_OneBatchPerName ==
    (event.name = "log_metrics" /\ result.status = "returned") =>
        LET m == event.metrics_by_name
        IN /\ Len(calls) = Len(m)
           /\ \A j \in 1..Len(m) :
                LET md == m[j].val
                    batch == calls[j].metrics
                    lens == {Len(md.values), Len(md.timestamps), Len(md.steps)}
                IN /\ calls[j].op = "log_batch"
                   /\ calls[j].run_id = _run_id
                   /\ Len(batch) \in lens
                   /\ \A n \in lens : Len(batch) <= n
                   /\ \A i \in 1..Len(batch) :
                        /\ batch[i].key = m[j].k
                        /\ batch[i].value = md.values[i]
                        /\ batch[i].timestamp = MillisOf(md.timestamps[i])
                        /\ batch[i].step = md.steps[i]

\* Two names with two samples for the first: two batches, the first with
\* the timestamps 1000000 and 1001000 in that order.
C5_Witness ==
    /\ event.name = "log_metrics"
    /\ result.status = "returned"
    /\ Len(calls) = 2
    /\ event.metrics_by_name[1].val = TwoSamples
    /\ Len(calls[1].metrics) = 2
    /\ calls[1].metrics[1] = Metric(Loss, 5, 1000000, 0)
    /\ calls[1].metrics[2] = Metric(Loss, 3, 1001000, 1)
    /\ event.metrics_by_name[2].k = Acc

TerminalEvents == {"completed_event", "interrupted_event", "failed_event"}

\* C6: in a session that follows the inbound order, a terminal callback
\* issues exactly one end-run call, with the status finished, killed or
\* failed according to the callback, and once an end-run call has been
\* issued the callback handled last is that terminal one: no parameter,
\* tag or metric call has followed it.
C6_TerminalEndsRun ==
    /\ event.name = "completed_event" =>
          calls = <<[op |-> "end_run", status |-> "FINISHED"]>>
    /\ event.name = "interrupted_event" =>
          calls = <<[op |-> "end_run", status |-> "KILLED"]>>
    /\ event.name = "failed_event" =>
          calls = <<[op |-> "end_run", status |-> "FAILED"]>>
    /\ ended =>
          /\ event.name \in TerminalEvents
          /\ phase = "closed"
          /\ \A i \in 1..Len(calls) :
                calls[i].op \notin {"log_params", "set_tag", "set_tags",
                                    "log_batch"}

\* A started run was interrupted.
C6_Witness ==
    /\ started_ok
    /\ event.name = "interrupted_event"
    /\ ended
    /\ phase = "closed"
    /\ result.status = "returned"

\* p without its trailing separators
RECURSIVE StripSlashes(_)
StripSlashes(p) ==
    IF p # <<>> /\ p[Len(p)] = "/" THEN StripSlashes(SubSeq(p, 1, Len(p) - 1))
    ELSE p

\* The final component of a path: what follows the last separator that is
\* not a trailing one.
FinalComponent(p) == basename(StripSlashes(p))

\* C7: artifact_event issues exactly one call under the held run
\* identifier: for a directory, a directory upload whose artifact path is
\* the directory's final path component; otherwise a single-file upload
\* without artifact path.
C7_ArtifactPathIsDirName ==
    event.name = "artifact_event" =>
        IF event.isdir
        THEN calls = <<[op |-> "log_artifacts", run_id |-> _run_id,
                        local_dir |-> event.filename,
                        artifact_path |-> FinalComponent(event.filename)]>>
        ELSE calls = <<[op |-> "log_artifact", run_id |-> _run_id,
                        local_path |-> event.filename]>>

\* C8: whenever started_event reaches start_run, the run name it passes is
\* the comment of meta_info if meta_info has one (the empty comment
\* included), and otherwise "run_" followed by the current time formatted
\* by time_fmt.
C8_RunName ==
    (event.name = "started_event" /\ Len(calls) >= 3) =>
        /\ calls[3].op = "start_run"
        /\ IF <<"comment">> \in KeysOf(event.meta_info)
           THEN calls[3].run_name = ValueAt(event.meta_info, <<"comment">>)
           ELSE calls[3].run_name =
                    <<"run_">> \o strftime(event.now, time_fmt)

\* Without a comment, on Nov 4 at 09:30:05 and with the default pattern,
\* the run is named run_Nov04_09-30-05.
C8_Witness ==
    /\ event.name = "started_event"
    /\ result.status = "returned"
    /\ event.meta_info = <<>>
    /\ event.now = [b |-> "Nov", d |-> 4, H |-> 9, M |-> 30, S |-> 5]
    /\ time_fmt = DefaultTimeFmt
    /\ calls[3].run_name =
          <<"run_", "Nov", "0", "4", "_", "0", "9", "-", "3", "0", "-",
            "0", "5">>

\* C9: self._run_id is None until a started_event has returned; every
\* callback leaves tracking_uri and time_fmt alone; only a started_event
\* that returns changes self._run_id; and such a started_event returns the
\* identifier the store assigned to the run it opened, which is also the
\* value of self._run_id afterwards.
C9_RunIdFrame ==
    /\ [](~started_ok => _run_id = None)
    /\ [][ /\ tracking_uri' = tracking_uri
           /\ time_fmt' = time_fmt
           /\ _run_id' # _run_id =>
                 (event'.name = "started_event" /\ result'.status = "returned")
           /\ (event'.name = "started_event" /\ result'.status = "returned") =>
                 /\ store_runs' = store_runs + 1
                 /\ active_run' = RunIdOf(store_runs')
                 /\ result'.value = active_run'
                 /\ _run_id' = active_run' ]_vars

\* The identifier of the second run is still held after the run was ended.
C9_Witness ==
    /\ _run_id = RunIdOf(2)
    /\ event.name = "failed_event"
    /\ active_run = None

\* C10: a callback that raises issued no call after the one that failed,
\* raises what that call raised, and leaves self._run_id as it was. When
\* started_event fails after start_run returned, the store has an open run
\* that self._run_id does not name; when log_metrics fails, the batches
\* submitted are those of the names up to the failing one, in order.
C10_FailureAborts ==
    [][ result'.status = "raised" =>
            /\ _run_id' = _run_id
            /\ result'.at >= 1
            /\ Len(calls') = result'.at
            /\ result'.error = StoreError(calls'[result'.at].op)
            /\ (event'.name = "started_event" /\ result'.at > 3) =>
                  /\ active_run' = RunIdOf(store_runs')
                  /\ _run_id' # active_run'
            /\ event'.name = "log_metrics" =>
                  /\ Len(calls') <= Len(event'.metrics_by_name)
                  /\ \A j \in 1..Len(calls') :
                        calls'[j].metrics =
                            Batch(event'.metrics_by_name[j].k,
                                  event'.metrics_by_name[j].val) ]_vars

\* started_event failed at log_params: the store has opened run r1 and
\* self._run_id is still None.
C10_Witness ==
    /\ event.name = "started_event"
    /\ result.status = "raised"
    /\ result.at = 4
    /\ calls[4].op = "log_params"
    /\ active_run = RunIdOf(1)
    /\ _run_id = None

=============================================================================
